---- MODULE Spec2Model ----
(***************************************************************************)
(* Model of openmlpimp/plot/kde.py: the archived-sample parser             *)
(* (obtain_sampled_parameters), the two plotters (plot_categorical,        *)
(* plot_numeric) and the script entry point that drives them.              *)
(*                                                                         *)
(* Strings are sequences of one-character strings, so that startswith,     *)
(* split and + act on them as Python's do.  Python dicts are ordered       *)
(* dictionaries: sequences of <<key, value>> pairs in insertion order.     *)
(* Probabilities and grid points are exact fractions [num, den].           *)
(***************************************************************************)
EXTENDS Integers, Sequences, FiniteSets, TLC

VARIABLES
    glob_files,        \* obtain_sampled_parameters: what glob.glob returned
    parsed,            \* obtain_sampled_parameters: its outcome
    fs_dirs,           \* directories that exist
    fs_files,          \* ordered dict path -> what the last savefig wrote there
    plot_target,       \* SpecPlot: the output_dir and parameter_name of the calls
    last_call,         \* the latest plotter call, with its outcome
    ncalls,            \* number of plotter calls made
    plotted,           \* entry point: <<param_name, plotter>> of each dispatch
    pc,                \* position of the script entry point
    paths,             \* output_dir, cache_dir, results_dir and the suffixes
    args,              \* parse_args() result
    results_tree,      \* os.listdir(results_dir) with each entry's *.arff files
    obtained_results,  \* ordered dict strategy -> parsed samples
    priors_request,    \* the calls of obtain_priors made, each as its arguments
    param_priors,      \* ordered dict hyperparameter name -> prior values
    loop_idx,          \* next item of param_priors.items()
    raised             \* the unhandled exception that ended the run

parserVars == <<glob_files, parsed>>
plotterVars == <<fs_dirs, fs_files, last_call, ncalls>>
scriptVars == <<pc, paths, args, results_tree, obtained_results, priors_request,
                param_priors, loop_idx, raised, plotted>>
vars == <<parserVars, plot_target, plotterVars, scriptVars>>

(***************************************************************************)
(* Bounds of the model.                                                    *)
(***************************************************************************)
MaxFiles == 2
MaxRows == 2
MaxCalls == 2
MaxLen == 3
MaxSeries == 4
MaxStrategies == 3

(***************************************************************************)
(* Strings.                                                                *)
(***************************************************************************)
S_parameter_ == <<"p","a","r","a","m","e","t","e","r","_">>
S_sep == <<"_","_">>
S_png == <<".","p","n","g">>
S_slash == <<"/">>
S_gaussian_kde == <<"g","a","u","s","s","i","a","n","_","k","d","e">>
S_bestN == <<"b","e","s","t","N">>

\* an optional dict: None, or the ordered dictionary items
None == [none |-> TRUE, items |-> <<>>]
Dict(items) == [none |-> FALSE, items |-> items]

Digits == <<"0","1","2","3","4","5","6","7","8","9">>

\* str(n) of a natural number
RECURSIVE Str(_)
Str(n) ==
    IF n < 10 THEN <<Digits[n + 1]>>
    ELSE Str(n \div 10) \o <<Digits[(n % 10) + 1]>>

\* str.startswith
StartsWith(s, prefix) ==
    /\ Len(s) >= Len(prefix)
    /\ SubSeq(s, 1, Len(prefix)) = prefix

\* str.find: the first index >= from at which sub occurs in s, 0 when none
Find(s, sub, from) ==
    LET hits == {i \in from..(Len(s) - Len(sub) + 1) :
                    SubSeq(s, i, i + Len(sub) - 1) = sub}
    IN  IF hits = {} THEN 0 ELSE CHOOSE i \in hits : \A j \in hits : i <= j

\* str.split(sep): cut at each occurrence of sep, found from the left,
\* occurrences not overlapping
RECURSIVE Split(_, _)
Split(s, sub) ==
    LET i == Find(s, sub, 1)
    IN  IF i = 0 THEN <<s>>
        ELSE <<SubSeq(s, 1, i - 1)>> \o Split(SubSeq(s, i + Len(sub), Len(s)), sub)

(***************************************************************************)
(* Ordered dictionaries.                                                   *)
(***************************************************************************)
Keys(d) == [i \in 1..Len(d) |-> d[i][1]]
Vals(d) == [i \in 1..Len(d) |-> d[i][2]]
Has(d, k) == \E i \in 1..Len(d) : d[i][1] = k
Get(d, k) == d[CHOOSE i \in 1..Len(d) : d[i][1] = k][2]
\* d[k] = v: an existing key keeps its place
Put(d, k, v) ==
    IF Has(d, k)
    THEN [i \in 1..Len(d) |-> IF d[i][1] = k THEN <<k, v>> ELSE d[i]]
    ELSE Append(d, <<k, v>>)
\* collections.defaultdict(list): d[k] of a missing key is []
GetList(d, k) == IF Has(d, k) THEN Get(d, k) ELSE <<>>
NoError == "None"

(***************************************************************************)
(* obtain_sampled_parameters (kde.py 38-50).                               *)
(*                                                                         *)
(* An archived file is [status, attributes, data]: status "ok", or         *)
(* "missing" (open fails) or "malformed" (arff.load fails); attributes is  *)
(* the sequence of <<name, type>> pairs and data the sequence of rows.     *)
(* Sequences are 1-based, so attribute[0] of the code is attribute[1].     *)
(***************************************************************************)
\* line 47: attribute_name.startswith('parameter_')
is_parameter(attribute_name) == StartsWith(attribute_name, S_parameter_)

\* variant of line 48 that takes the first piece: split('__')[0]
canonical_name_first(attribute_name) == Split(attribute_name, S_sep)[1]

\* line 48: attribute_name.split('__')[-1]
canonical_name(attribute_name) ==
    LET parts == Split(attribute_name, S_sep) IN parts[Len(parts)]

\* line 49: [arff_file['data'][x][idx] for x in range(len(arff_file['data']))]
column(arff_file, idx) ==
    [x \in 1..Len(arff_file.data) |-> arff_file.data[x][idx]]

\* line 49: values[canonical_name].extend(...)
extend(values, key, col) == Put(values, key, GetList(values, key) \o col)

\* lines 45-49: the loop over the attributes of one file, from idx on
RECURSIVE load_attributes(_, _, _)
load_attributes(values, arff_file, idx) ==
    IF idx > Len(arff_file.attributes) THEN values
    ELSE LET attribute_name == arff_file.attributes[idx][1]
             next == IF is_parameter(attribute_name)
                     THEN extend(values, canonical_name(attribute_name),
                                 column(arff_file, idx))
                     ELSE values
         IN  load_attributes(next, arff_file, idx + 1)

\* variant of lines 43-44 that swallows what open and arff.load raise
load_error_ignored(file) == NoError

\* lines 43-44: open(file) and arff.load(fp); nothing catches what they raise
load_error(file) ==
    CASE file.status = "missing" -> "FileNotFoundError"
      [] file.status = "malformed" -> "BadLayout"
      [] OTHER -> NoError

\* lines 42-49: the loop over the files, from file i on
RECURSIVE load_files(_, _, _)
load_files(values, files, i) ==
    IF i > Len(files) THEN [raised |-> NoError, values |-> values]
    ELSE IF load_error(files[i]) # NoError
         THEN [raised |-> load_error(files[i]), values |-> <<>>]
         ELSE load_files(load_attributes(values, files[i], 1), files, i + 1)

\* lines 38-50; values is returned only when nothing was raised
obtain_sampled_parameters(files) == load_files(<<>>, files, 1)

(***************************************************************************)
(* Inputs of the parser: attribute names, attribute lists and files.       *)
(***************************************************************************)
N_a_lr == S_parameter_ \o <<"a","_","_","l","r">>
N_b_lr == S_parameter_ \o <<"b","_","_","l","r">>
N_a_n == S_parameter_ \o <<"a","_","_","n">>
N_lr == S_parameter_ \o <<"l","r">>
N_a_3n == S_parameter_ \o <<"a","_","_","_","n">>
N_plain == <<"a","_","_","l","r">>

Attr(name) == <<name, "NUMERIC">>

AttrLists ==
    { <<>>, <<Attr(N_a_lr)>>, <<Attr(N_plain)>>, <<Attr(N_lr)>>, <<Attr(N_a_3n)>>,
      <<Attr(N_a_lr), Attr(N_a_n)>>, <<Attr(N_a_n), Attr(N_a_lr)>>,
      <<Attr(N_a_lr), Attr(N_b_lr)>>, <<Attr(N_plain), Attr(N_a_lr)>>,
      <<Attr(N_a_3n), Attr(N_a_n)>> }

\* the cell of file i, row x, column idx: every cell of a run is different
Cell(i, x, idx) == 100 * i + 10 * x + idx

ArffFile(i, attributes, nrows) ==
    [status |-> "ok", attributes |-> attributes,
     data |-> [x \in 1..nrows |-> [idx \in 1..Len(attributes) |-> Cell(i, x, idx)]]]

BadFile(status) == [status |-> status, attributes |-> <<>>, data |-> <<>>]

\* what glob.glob may match at one position: a file that loads, given by its
\* attributes and its number of rows, or one that does not
FileChoices ==
    {[status |-> "ok", attributes |-> a, nrows |-> n] :
        a \in AttrLists, n \in 0..MaxRows}
    \cup {[status |-> st, attributes |-> <<>>, nrows |-> 0] :
            st \in {"missing", "malformed"}}

FileOf(i, c) ==
    IF c.status = "ok" THEN ArffFile(i, c.attributes, c.nrows)
    ELSE BadFile(c.status)

NotParsed == [done |-> FALSE, raised |-> NoError, values |-> <<>>]

(***************************************************************************)
(* The file system and the rendering library, as far as the plotters use   *)
(* them.                                                                   *)
(***************************************************************************)
\* the directory a path names: a trailing '/' does not count
Dir(output_dir) ==
    IF Len(output_dir) > 1 /\ output_dir[Len(output_dir)] = "/"
    THEN SubSeq(output_dir, 1, Len(output_dir) - 1)
    ELSE output_dir

\* os.makedirs: raises FileExistsError when the directory is there
makedirs(dirs, output_dir) ==
    [raised |-> IF Dir(output_dir) \in dirs THEN "FileExistsError" ELSE NoError,
     dirs |-> dirs \cup {Dir(output_dir)}]

\* lines 54-57 and 76-79: try: os.makedirs(output_dir) except FileExistsError: pass
ensure_dir(dirs, output_dir) ==
    LET r == makedirs(dirs, output_dir)
    IN  [raised |-> IF r.raised = "FileExistsError" THEN NoError ELSE r.raised,
         dirs |-> r.dirs]

\* lines 71 and 112: output_dir + parameter_name + '.png'
png_path(output_dir, parameter_name) == output_dir \o parameter_name \o S_png

Frac(n, d) == [num |-> n, den |-> d]
AddFrac(a, b) ==
    IF a.den = b.den THEN Frac(a.num + b.num, a.den)
    ELSE Frac(a.num * b.den + b.num * a.den, a.den * b.den)

NoCall == [fn |-> "none"]

(***************************************************************************)
(* plot_categorical (kde.py 53-72).                                        *)
(***************************************************************************)
\* variant of line 63 with = in place of +=
increment_assign(X_prime, value, n) == Put(X_prime, value, Frac(1, n))

\* line 63: X_prime[value] += (1.0 / len(X))
increment(X_prime, value, n) ==
    Put(X_prime, value, AddFrac(Get(X_prime, value), Frac(1, n)))

\* lines 60-63: the loop over X, from X[i] on
RECURSIVE count_values(_, _, _)
count_values(X_prime, X, i) ==
    IF i > Len(X) THEN X_prime
    ELSE LET value == X[i]
             seen == IF ~Has(X_prime, value)
                     THEN Put(X_prime, value, Frac(0, Len(X)))
                     ELSE X_prime
         IN  count_values(increment(seen, value, Len(X)), X, i + 1)

\* lines 59-63
frequencies(X) == count_values(<<>>, X, 1)

\* line 64: rv_discrete(values=(list(range(len(X_prime))), list(X_prime.values())))
rv_discrete(X_prime) ==
    [xk |-> [i \in 1..Len(X_prime) |-> i - 1], pk |-> Vals(X_prime)]

\* lines 53-72; the 100 draws of line 68 are random and not kept
plot_categorical(X, output_dir, parameter_name, dirs) ==
    LET made == ensure_dir(dirs, output_dir)
        X_prime == frequencies(X)
    IN  [fn |-> "plot_categorical", X |-> X, output_dir |-> output_dir,
         parameter_name |-> parameter_name,
         raised |-> made.raised, dirs |-> made.dirs,
         X_prime |-> X_prime, distrib |-> rv_discrete(X_prime),
         hist_range |-> <<0, Len(X_prime)>>,
         trace |-> <<"makedirs", "subplots", "hist", "legend", "savefig", "close">>,
         saved |-> TRUE, path |-> png_path(output_dir, parameter_name)]

(***************************************************************************)
(* plot_numeric (kde.py 75-113).                                           *)
(***************************************************************************)
\* line 81 (1.0), line 82, and the number of points of line 87
factor == 1
lines == <<"r", "b", "g">>
NumPoints == 1000

\* np.power for a whole exponent
RECURSIVE np_power(_, _)
np_power(b, e) == IF e = 0 THEN 1 ELSE b * np_power(b, e - 1)

\* lines 83-86
plot_range(hyperparameter) ==
    LET min == np_power(hyperparameter.lower, factor)
        max == np_power(hyperparameter.upper, factor)
    IN  [min |-> min,
         max |-> IF max < hyperparameter.upper
                 THEN hyperparameter.upper * factor
                 ELSE max]

\* the i-th of the num points of np.linspace(start, stop, num), i from 1, as
\* a fraction over num - 1: both ends are included
linspace_point(start, stop, num, i) ==
    Frac(start * (num - 1) + (i - 1) * (stop - start), num - 1)

\* variant of line 87 that leaves the stop out: np.linspace(..., endpoint=False)
linspace_open(start, stop, num) ==
    [len |-> num,
     first |-> Frac(start * num, num),
     last |-> Frac(start * num + (num - 1) * (stop - start), num)]

\* np.linspace(start, stop, num), kept as its length and its two end points
linspace(start, stop, num) ==
    [len |-> num,
     first |-> linspace_point(start, stop, num, 1),
     last |-> linspace_point(start, stop, num, num)]

\* lines 90-98: the loop over enumerate(data), from the index-th item on;
\* lines[index] raises IndexError past the end of lines (index counts from 0)
RECURSIVE draw_series(_, _, _)
draw_series(drawn, data, index) ==
    IF index >= Len(data) THEN [raised |-> NoError, series |-> drawn]
    ELSE IF index >= Len(lines) THEN [raised |-> "IndexError", series |-> drawn]
         ELSE draw_series(
                  Append(drawn, [label |-> data[index + 1][1],
                                 colour |-> lines[index + 1],
                                 samples |-> data[index + 1][2]]),
                  data, index + 1)

\* lines 75-113; when the loop raises, nothing after it is executed
plot_numeric(hyperparameter, data, output_dir, parameter_name, dirs) ==
    LET made == ensure_dir(dirs, output_dir)
        range == plot_range(hyperparameter)
        X_values_plot == linspace(range.min, range.max, NumPoints)
        drawn == draw_series(<<>>, data, 0)
        ok == drawn.raised = NoError
    IN  [fn |-> "plot_numeric", data |-> data, output_dir |-> output_dir,
         parameter_name |-> parameter_name, hyperparameter |-> hyperparameter,
         raised |-> IF made.raised # NoError THEN made.raised ELSE drawn.raised,
         dirs |-> made.dirs,
         grid |-> X_values_plot,
         series |-> drawn.series,
         \* lines 102-103
         rug |-> IF ok /\ Has(data, S_gaussian_kde)
                 THEN Get(data, S_gaussian_kde) ELSE <<>>,
         \* line 107
         xlim |-> IF ok THEN <<range.min, range.max>> ELSE <<>>,
         \* lines 108-109; what plt.xscale does with log=2 is the library's
         xscale |-> IF ok /\ hyperparameter.log THEN "log" ELSE "linear",
         trace |-> <<"makedirs", "subplots">>
                   \o [k \in 1..Len(drawn.series) |-> "plot"]
                   \o (IF ok THEN <<"legend", "set_xlim", "savefig", "close">>
                       ELSE <<>>),
         saved |-> ok, path |-> png_path(output_dir, parameter_name)]

\* the file system after a plotter call: savefig replaces what was at the path
write_plot(files, call, n) ==
    IF call.saved /\ call.raised = NoError
    THEN Put(files, call.path, [by |-> n, fn |-> call.fn])
    ELSE files

(***************************************************************************)
(* SpecParse: obtain_sampled_parameters applied to a bounded glob result.  *)
(***************************************************************************)
ScriptIdle ==
    /\ pc = "idle" /\ paths = <<>>
    /\ args = [bestN |-> 10, fixed_parameters |-> None]
    /\ results_tree = [exists |-> FALSE, entries |-> <<>>]
    /\ obtained_results = <<>> /\ priors_request = <<>> /\ param_priors = <<>>
    /\ loop_idx = 0 /\ raised = NoError /\ plotted = <<>>

InitParse ==
    /\ \E n \in 0..MaxFiles : \E c \in [1..n -> FileChoices] :
          glob_files = [i \in 1..n |-> FileOf(i, c[i])]
    /\ parsed = NotParsed
    /\ fs_dirs = {} /\ fs_files = <<>> /\ last_call = NoCall /\ ncalls = 0
    /\ plot_target = <<>>
    /\ ScriptIdle

Parse ==
    /\ ~parsed.done
    /\ LET r == obtain_sampled_parameters(glob_files)
       IN  parsed' = [done |-> TRUE, raised |-> r.raised, values |-> r.values]
    /\ UNCHANGED <<glob_files, plot_target, plotterVars, scriptVars>>

NextParse == Parse

SpecParse == InitParse /\ [][NextParse]_vars
(***************************************************************************)
(* What the parser is expected to return, stated over the files.           *)
(***************************************************************************)
RECURSIVE ConcatAll(_)
ConcatAll(seqs) ==
    IF seqs = <<>> THEN <<>> ELSE Head(seqs) \o ConcatAll(Tail(seqs))

AllLoadable(files) == \A i \in 1..Len(files) : files[i].status = "ok"

\* the text after the last occurrence of '__' (the whole name when none)
AfterLastSep(s) ==
    LET hits == {i \in 1..(Len(s) - 1) : SubSeq(s, i, i + 1) = S_sep}
    IN  IF hits = {} THEN s
        ELSE SubSeq(s, (CHOOSE i \in hits : \A j \in hits : j <= i) + 2, Len(s))

\* the last piece when the name is read left to right and cut at every '__'
\* met, reading on after the two underscores
RECURSIVE LastPieceFrom(_, _, _)
LastPieceFrom(s, i, start) ==
    IF i + 1 > Len(s) THEN SubSeq(s, start, Len(s))
    ELSE IF s[i] = "_" /\ s[i + 1] = "_" THEN LastPieceFrom(s, i + 2, i + 2)
         ELSE LastPieceFrom(s, i + 1, start)

LastPiece(s) == LastPieceFrom(s, 1, 1)

ParameterColumns(files) ==
    {c \in UNION {{<<i, idx>> : idx \in 1..Len(files[i].attributes)} :
                     i \in 1..Len(files)} :
        StartsWith(files[c[1]].attributes[c[2]][1], S_parameter_)}

ExpectedKeys(files, Canon(_)) ==
    {Canon(files[c[1]].attributes[c[2]][1]) : c \in ParameterColumns(files)}

\* file by file, within a file column by column, within a column row by row
ExpectedValues(files, Y, Canon(_)) ==
    ConcatAll([i \in 1..Len(files) |->
        ConcatAll([idx \in 1..Len(files[i].attributes) |->
            IF <<i, idx>> \in ParameterColumns(files)
               /\ Canon(files[i].attributes[idx][1]) = Y
            THEN [x \in 1..Len(files[i].data) |-> files[i].data[x][idx]]
            ELSE <<>>])])

ParsedAsExpected(Canon(_)) ==
    (parsed.done /\ AllLoadable(glob_files)) =>
        /\ parsed.raised = NoError
        /\ {parsed.values[k][1] : k \in 1..Len(parsed.values)}
              = ExpectedKeys(glob_files, Canon)
        /\ Len(parsed.values) = Cardinality(ExpectedKeys(glob_files, Canon))
        /\ \A k \in 1..Len(parsed.values) :
              parsed.values[k][2]
                = ExpectedValues(glob_files, parsed.values[k][1], Canon)
        /\ (glob_files = <<>> => parsed.values = <<>>)

\* C1 as stated: the keys of the mapping obtain_sampled_parameters returns are
\* exactly the texts after the last '__' of the 'parameter_' attribute names,
\* each key holds the concatenation of its columns in file-then-row order,
\* other attributes contribute nothing, and no matching file gives an empty
\* mapping without an error.
C1_AsClaimed == ParsedAsExpected(AfterLastSep)

\* C1 as amended: the same, with the key of an attribute being the last piece
\* of its name cut at each '__' met from the left without overlap (the whole
\* name when it holds no '__'; '_n' for 'parameter_a___n'), and the order of
\* the values being file, then column, then row.
C1_Parsed == ParsedAsExpected(LastPiece)

C1_Witness ==
    /\ parsed.done
    /\ glob_files = << ArffFile(1, <<Attr(N_a_3n), Attr(N_a_n)>>, 2),
                       ArffFile(2, <<Attr(N_a_n), Attr(N_a_lr)>>, 1) >>
    /\ parsed.raised = NoError
    /\ parsed.values = << << <<"_","n">>, <<111, 121>> >>,
                          << <<"n">>, <<112, 122, 211>> >>,
                          << <<"l","r">>, <<212>> >> >>
(***************************************************************************)
(* SpecPlot: the two plotters called repeatedly with one output_dir and    *)
(* one parameter_name, on bounded inputs.                                  *)
(***************************************************************************)
OutputDirs == { <<"/","o","/">>, <<"/","o">> }
ParamNames == { <<"l","r">>, <<"n">> }
Categories == {"a", "b", "c"}

CatInputs == UNION {[1..n -> Categories] : n \in 1..MaxLen}

NumericHP(name, lower, upper, log) ==
    [name |-> name, kind |-> "Numerical", lower |-> lower, upper |-> upper,
     log |-> log]

NumericHPs ==
    { NumericHP(<<"n">>, 1, 100, FALSE), NumericHP(<<"l","r">>, 2, 7, TRUE),
      NumericHP(<<"n">>, -3, 4, FALSE) }

StrategyName(k) == <<"s">> \o Str(k)
Samples(k) == <<10 * k, 10 * k + 5, 10 * k + 1>>

\* a strategy-labelled sample set of n series, headed by the prior or not
DataOf(n, withPrior) ==
    IF withPrior
    THEN <<<<S_gaussian_kde, Samples(0)>>>>
         \o [k \in 1..(n - 1) |-> <<StrategyName(k), Samples(k)>>]
    ELSE [k \in 1..n |-> <<StrategyName(k), Samples(k)>>]

DataInputs == {DataOf(n, w) : n \in 1..MaxSeries, w \in BOOLEAN}

InitPlot ==
    /\ plot_target \in [output_dir : OutputDirs, parameter_name : ParamNames]
    /\ fs_dirs \in {{}, {Dir(plot_target.output_dir)}}
    /\ fs_files = <<>>
    /\ last_call = NoCall /\ ncalls = 0
    /\ glob_files = <<>> /\ parsed = NotParsed
    /\ ScriptIdle

Returned(call) ==
    /\ last_call' = call
    /\ ncalls' = ncalls + 1
    /\ fs_dirs' = call.dirs
    /\ fs_files' = write_plot(fs_files, call, ncalls + 1)

CallPlotCategorical ==
    /\ ncalls < MaxCalls
    /\ \E X \in CatInputs :
          Returned(plot_categorical(X, plot_target.output_dir,
                                    plot_target.parameter_name, fs_dirs))
    /\ UNCHANGED <<parserVars, plot_target, scriptVars>>

CallPlotNumeric ==
    /\ ncalls < MaxCalls
    /\ \E hyperparameter \in NumericHPs, data \in DataInputs :
          Returned(plot_numeric(hyperparameter, data, plot_target.output_dir,
                                plot_target.parameter_name, fs_dirs))
    /\ UNCHANGED <<parserVars, plot_target, scriptVars>>

NextPlot == CallPlotCategorical \/ CallPlotNumeric

SpecPlot == InitPlot /\ [][NextPlot]_vars
(***************************************************************************)
(* Claims about the plotters, under SpecPlot.                              *)
(***************************************************************************)
Occurrences(X, v) == Cardinality({i \in 1..Len(X) : X[i] = v})
FirstSeen(X, v) == CHOOSE i \in 1..Len(X) : X[i] = v /\ \A j \in 1..(i - 1) : X[j] # v

RECURSIVE SumFrac(_)
SumFrac(fs) ==
    IF fs = <<>> THEN Frac(0, 1) ELSE AddFrac(Head(fs), SumFrac(Tail(fs)))

\* C4: for a non-empty X, the keys of plot_categorical's frequency map are the
\* distinct values of X in first-seen order, the value of key v is
\* (occurrences of v) / len(X), the values sum to 1, and the discrete
\* distribution gives index i the probability of the i-th first-seen value.
C4_Frequencies ==
    last_call.fn = "plot_categorical" =>
        LET X == last_call.X
            X_prime == last_call.X_prime
            n == Len(X_prime)
        IN  /\ {X_prime[k][1] : k \in 1..n} = {X[i] : i \in 1..Len(X)}
            /\ n = Cardinality({X[i] : i \in 1..Len(X)})
            /\ \A j, k \in 1..n :
                  j < k => FirstSeen(X, X_prime[j][1]) < FirstSeen(X, X_prime[k][1])
            /\ \A k \in 1..n :
                  X_prime[k][2].num * Len(X)
                    = Occurrences(X, X_prime[k][1]) * X_prime[k][2].den
            /\ SumFrac(Vals(X_prime)).num = SumFrac(Vals(X_prime)).den
            /\ last_call.distrib.xk = [k \in 1..n |-> k - 1]
            /\ \A k \in 1..n : last_call.distrib.pk[k] = X_prime[k][2]

C4_Witness ==
    /\ last_call.fn = "plot_categorical"
    /\ last_call.X = <<"a", "a", "b">>
    /\ last_call.X_prime = << <<"a", Frac(2, 3)>>, <<"b", Frac(1, 3)>> >>
    /\ last_call.distrib = [xk |-> <<0, 1>>, pk |-> <<Frac(2, 3), Frac(1, 3)>>]

\* C6: plot_numeric draws the i-th strategy of data with the i-th colour of
\* (red, blue, green), and with more than 3 strategies it raises nothing,
\* reuses the colours and saves the plot.
C6_NoErrorPastPalette ==
    last_call.fn = "plot_numeric" =>
        /\ last_call.raised = NoError
        /\ last_call.saved
        /\ Len(last_call.series) = Len(last_call.data)
        /\ \A k \in 1..Len(last_call.series) :
              /\ last_call.series[k].label = last_call.data[k][1]
              /\ last_call.series[k].colour = lines[((k - 1) % 3) + 1]

\* C7: for a numeric hyperparameter with lower <= upper, plot_numeric's range
\* runs from the computed lower bound to max(computed upper, declared upper),
\* which is never below the declared upper bound; the 1000 evaluation points
\* span exactly this range, and the x-limits of the top subplot, whenever
\* they are set, are exactly this range.
C7_Range ==
    last_call.fn = "plot_numeric" =>
        LET h == last_call.hyperparameter
            computed_lower == h.lower
            computed_upper == h.upper
            final_upper == IF computed_upper < h.upper THEN h.upper ELSE computed_upper
        IN  h.lower <= h.upper =>
              /\ final_upper >= h.upper
              /\ last_call.grid.len = 1000
              /\ last_call.grid.first.num = computed_lower * last_call.grid.first.den
              /\ last_call.grid.last.num = final_upper * last_call.grid.last.den
              /\ (last_call.raised = NoError
                     => last_call.xlim = <<computed_lower, final_upper>>)
              /\ last_call.xlim \in {<<>>, <<computed_lower, final_upper>>}

C7_Witness ==
    /\ last_call.fn = "plot_numeric"
    /\ last_call.hyperparameter.lower = 1 /\ last_call.hyperparameter.upper = 100
    /\ last_call.raised = NoError
    /\ last_call.xlim = <<1, 100>>
    /\ last_call.grid = [len |-> 1000, first |-> Frac(999, 999),
                         last |-> Frac(99900, 999)]

Before(trace, a, b) ==
    \E i, j \in 1..Len(trace) : i < j /\ trace[i] = a /\ trace[j] = b

\* C9: whatever the number of earlier calls with the same output_dir and
\* parameter_name, a call of plot_categorical or plot_numeric raises nothing
\* when the directory exists, writes its plot to exactly
\* output_dir + parameter_name + '.png', replacing what an earlier call wrote
\* there, and closes the figure only after the file is written.
C9_EveryCallWrites ==
    last_call.fn # "none" =>
        LET path == plot_target.output_dir \o plot_target.parameter_name \o S_png
        IN  /\ last_call.raised = NoError
            /\ Keys(fs_files) = <<path>>
            /\ Get(fs_files, path) = [by |-> ncalls, fn |-> last_call.fn]
            /\ Before(last_call.trace, "savefig", "close")
            /\ Dir(plot_target.output_dir) \in fs_dirs
(***************************************************************************)
(* The script entry point (kde.py 116-151).                                *)
(***************************************************************************)
S_adaboost == <<"a","d","a","b","o","o","s","t">>
S_vanilla == <<"v","a","n","i","l","l","a">>
S_output_directory == <<"/","p","d","f">>
S_cache_directory == <<"/","k","d","e">>
S_result_directory == <<"/","r","s","p">>

\* openmlpimp.utils.fixed_parameters_to_suffix: the items as key_value joined
\* by '__', 'vanilla' when there are none
RECURSIVE join_items(_)
join_items(items) ==
    IF items = <<>> THEN <<>>
    ELSE items[1][1] \o <<"_">> \o Str(items[1][2])
         \o (IF Len(items) > 1 THEN S_sep \o join_items(Tail(items)) ELSE <<>>)

fixed_parameters_to_suffix(fixed_parameters) ==
    IF fixed_parameters.none \/ fixed_parameters.items = <<>>
    THEN S_vanilla
    ELSE join_items(fixed_parameters.items)

\* lines 119-126
resolve_paths(a) ==
    LET cache_folder_suffix == fixed_parameters_to_suffix(a.fixed_parameters)
        important_parameters ==
            Put(IF ~a.fixed_parameters.none THEN a.fixed_parameters.items ELSE <<>>,
                S_bestN, a.bestN)
        save_folder_suffix == fixed_parameters_to_suffix(Dict(important_parameters))
    IN  [important_parameters |-> important_parameters,
         save_folder_suffix |-> save_folder_suffix,
         output_dir |-> S_output_directory \o S_slash \o S_adaboost \o S_slash
                        \o save_folder_suffix,
         cache_dir |-> S_cache_directory \o S_slash \o S_adaboost \o S_slash
                       \o cache_folder_suffix,
         results_dir |-> S_result_directory \o S_slash \o S_adaboost \o S_slash
                         \o save_folder_suffix]

\* line 133: the hyperparameters of the classifier's configuration space
P_n == <<"n">>
P_alg == <<"a","l","g">>
P_c == <<"c">>

hyperparameters ==
    << <<P_n, NumericHP(P_n, 1, 100, FALSE)>>,
       <<P_alg, [name |-> P_alg, kind |-> "Categorical"]>>,
       <<P_c, [name |-> P_c, kind |-> "Constant"]>> >>

\* line 139: the arguments obtain_priors is called with
priors_call(a, p) ==
    [cache_dir |-> p.cache_dir, fixed_parameters |-> a.fixed_parameters,
     bestN |-> 10]

\* variant of line 142 that only takes a list of at most one value as degenerate
is_degenerate_single(priors) == Len(priors) <= 1

\* line 142: all(x == priors[0] for x in priors)
is_degenerate(priors) == \A i \in 1..Len(priors) : priors[i] = priors[1]

\* variant of line 150 with a plain else in place of the second isinstance test
dispatch_else(current_parameter) ==
    IF current_parameter.kind = "Numerical" THEN "plot_numeric"
    ELSE "plot_categorical"

\* lines 145 and 150: the isinstance tests
dispatch(current_parameter) ==
    CASE current_parameter.kind = "Numerical" -> "plot_numeric"
      [] current_parameter.kind = "Categorical" -> "plot_categorical"
      [] OTHER -> "none"

\* lines 147-148: the loop over obtained_results, from the k-th strategy on
RECURSIVE add_strategies(_, _, _, _)
add_strategies(data, results, param_name, k) ==
    IF k > Len(results) THEN data
    ELSE add_strategies(
             Put(data, results[k][1], GetList(results[k][2], param_name)),
             results, param_name, k + 1)

\* lines 146-148
strategy_data(priors, results, param_name) ==
    add_strategies(<<<<S_gaussian_kde, priors>>>>, results, param_name, 1)

\* line 148 reads obtained_results[strategy][param_name] of a defaultdict:
\* a missing key is added with an empty list
touched(results, param_name) ==
    [k \in 1..Len(results) |->
        <<results[k][1],
          IF Has(results[k][2], param_name) THEN results[k][2]
          ELSE Append(results[k][2], <<param_name, <<>>>>)>>]

(***************************************************************************)
(* Inputs of a run: the command line, the results directory tree and what  *)
(* the prior utility returns.                                              *)
(***************************************************************************)
BestNs == {10, 20}
FixedChoices == {None, Dict(<< <<P_c, 7>> >>)}

StrategyNames ==
    {StrategyName(1), StrategyName(2), StrategyName(3), S_gaussian_kde}

\* the *.arff files under the k-th listed strategy directory: none, one that
\* loads, one that loads followed by a malformed one, or one that is gone
\* when it is opened
DirKinds == {"empty", "loads", "malformed", "missing"}

DirFiles(k, kind) ==
    CASE kind = "empty" -> <<>>
      [] kind = "loads" -> <<ArffFile(k, <<Attr(N_a_n), Attr(N_plain)>>, 2)>>
      [] kind = "malformed" ->
            <<ArffFile(k, <<Attr(N_a_n)>>, 1), BadFile("malformed")>>
      [] OTHER -> <<BadFile("missing")>>

DistinctNames(names) ==
    \A i, j \in DOMAIN names : i # j => names[i] # names[j]

PriorsOf(numeric, categorical, constant) ==
    << <<P_n, numeric>>, <<P_alg, categorical>>, <<P_c, constant>> >>

Reverse(q) == [i \in 1..Len(q) |-> q[Len(q) + 1 - i]]

PriorResults ==
    LET inOrder == {PriorsOf(n, a, c) :
                       n \in {<<3, 3, 3>>, <<15, 18, 22, 30>>},
                       a \in {<<"a", "a">>, <<"a", "a", "b">>},
                       c \in {<<7, 7>>, <<7, 8>>}}
    IN  inOrder \cup {Reverse(q) : q \in inOrder}

(***************************************************************************)
(* Spec: one run of the script.                                            *)
(***************************************************************************)
Init ==
    /\ pc = "start"
    /\ args \in [bestN : BestNs, fixed_parameters : FixedChoices]
    /\ \/ results_tree = [exists |-> FALSE, entries |-> <<>>]
       \/ \E n \in 0..MaxStrategies :
             \E names \in [1..n -> StrategyNames], kinds \in [1..n -> DirKinds] :
                /\ DistinctNames(names)
                /\ results_tree =
                      [exists |-> TRUE,
                       entries |-> [k \in 1..n |->
                                      [name |-> names[k],
                                       files |-> DirFiles(k, kinds[k])]]]
    /\ paths = <<>> /\ obtained_results = <<>> /\ priors_request = <<>>
    /\ param_priors = <<>> /\ loop_idx = 0 /\ raised = NoError /\ plotted = <<>>
    /\ fs_dirs = {} /\ fs_files = <<>> /\ last_call = NoCall /\ ncalls = 0
    /\ plot_target = <<>>
    /\ glob_files = <<>> /\ parsed = NotParsed

\* lines 117-133
Start ==
    /\ pc = "start"
    /\ paths' = resolve_paths(args)
    /\ pc' = "listdir"
    /\ UNCHANGED <<parserVars, plot_target, plotterVars, args, results_tree,
                   obtained_results, priors_request, param_priors, loop_idx,
                   raised, plotted>>

\* lines 134-136: os.listdir(results_dir) raises when the directory is missing
ListDir ==
    /\ pc = "listdir"
    /\ IF results_tree.exists
       THEN pc' = "aggregate" /\ raised' = raised
       ELSE pc' = "terminated" /\ raised' = "FileNotFoundError"
    /\ UNCHANGED <<parserVars, plot_target, plotterVars, paths, args, results_tree,
                   obtained_results, priors_request, param_priors, loop_idx,
                   plotted>>

\* lines 136-137, one strategy: the next one is the first not yet in
\* obtained_results
ParseStrategy ==
    /\ pc = "aggregate"
    /\ Len(obtained_results) < Len(results_tree.entries)
    /\ LET strategy == results_tree.entries[Len(obtained_results) + 1]
           r == obtain_sampled_parameters(strategy.files)
       IN  IF r.raised = NoError
           THEN /\ obtained_results' = Put(obtained_results, strategy.name, r.values)
                /\ UNCHANGED <<pc, raised>>
           ELSE /\ raised' = r.raised
                /\ pc' = "terminated"
                /\ UNCHANGED obtained_results
    /\ UNCHANGED <<parserVars, plot_target, plotterVars, paths, args, results_tree,
                   priors_request, param_priors, loop_idx, plotted>>

\* line 139
ObtainPriors ==
    /\ pc = "aggregate"
    /\ Len(obtained_results) = Len(results_tree.entries)
    /\ priors_request' = Append(priors_request, priors_call(args, paths))
    /\ param_priors' \in PriorResults
    /\ loop_idx' = 1
    /\ pc' = "loop"
    /\ UNCHANGED <<parserVars, plot_target, plotterVars, paths, args, results_tree,
                   obtained_results, raised, plotted>>

InLoop == pc = "loop" /\ loop_idx <= Len(param_priors)
param_name == param_priors[loop_idx][1]
priors == param_priors[loop_idx][2]
current_parameter == Get(hyperparameters, param_name)

\* after a plotter call: on to the next item, or the run ends with what the
\* call raised
AfterCall(call) ==
    /\ Returned(call)
    /\ plotted' = Append(plotted, <<param_name, call.fn>>)
    /\ IF call.raised = NoError
       THEN loop_idx' = loop_idx + 1 /\ UNCHANGED <<pc, raised>>
       ELSE pc' = "terminated" /\ raised' = call.raised /\ UNCHANGED loop_idx

\* lines 142-143
SkipDegenerate ==
    /\ InLoop
    /\ is_degenerate(priors)
    /\ loop_idx' = loop_idx + 1
    /\ UNCHANGED <<parserVars, plot_target, plotterVars, pc, paths, args,
                   results_tree, obtained_results, priors_request, param_priors,
                   raised, plotted>>

\* lines 144-149
PlotNumeric ==
    /\ InLoop
    /\ ~is_degenerate(priors)
    /\ dispatch(current_parameter) = "plot_numeric"
    /\ obtained_results' = touched(obtained_results, param_name)
    /\ AfterCall(plot_numeric(current_parameter,
                              strategy_data(priors, obtained_results, param_name),
                              paths.output_dir \o S_slash, param_name, fs_dirs))
    /\ UNCHANGED <<parserVars, plot_target, paths, args, results_tree,
                   priors_request, param_priors>>

\* lines 144, 150-151
PlotCategorical ==
    /\ InLoop
    /\ ~is_degenerate(priors)
    /\ dispatch(current_parameter) = "plot_categorical"
    /\ AfterCall(plot_categorical(priors, paths.output_dir \o S_slash, param_name,
                                  fs_dirs))
    /\ UNCHANGED <<parserVars, plot_target, paths, args, results_tree,
                   obtained_results, priors_request, param_priors>>

\* lines 144-151 when neither isinstance test holds
SkipOtherKind ==
    /\ InLoop
    /\ ~is_degenerate(priors)
    /\ dispatch(current_parameter) = "none"
    /\ loop_idx' = loop_idx + 1
    /\ UNCHANGED <<parserVars, plot_target, plotterVars, pc, paths, args,
                   results_tree, obtained_results, priors_request, param_priors,
                   raised, plotted>>

\* the loop of line 141 is exhausted
Finish ==
    /\ pc = "loop"
    /\ loop_idx > Len(param_priors)
    /\ pc' = "done"
    /\ UNCHANGED <<parserVars, plot_target, plotterVars, paths, args, results_tree,
                   obtained_results, priors_request, param_priors, loop_idx,
                   raised, plotted>>

Next ==
    \/ Start \/ ListDir \/ ParseStrategy \/ ObtainPriors
    \/ SkipDegenerate \/ PlotNumeric \/ PlotCategorical \/ SkipOtherKind
    \/ Finish

Spec == Init /\ [][Next]_vars
(***************************************************************************)
(* Claims about a run of the script, under Spec.                           *)
(***************************************************************************)
\* the items of param_priors the loop has taken up: the run that ended in the
\* loop ended at item loop_idx
Processed ==
    IF pc = "terminated" THEN 1..loop_idx ELSE 1..(loop_idx - 1)

AllIdentical(values) == Cardinality({values[i] : i \in 1..Len(values)}) <= 1

PlottedBy(name, fn) == {i \in 1..Len(plotted) : plotted[i] = <<name, fn>>}
PlotterCalls(name) == {i \in 1..Len(plotted) : plotted[i][1] = name}
PlotFile(name) == paths.output_dir \o S_slash \o name \o S_png
EndedAt(k) == pc = "terminated" /\ loop_idx = k

\* C2: in the loop over param_priors, a hyperparameter whose prior values are
\* not all identical is handed to plot_numeric iff it is Numerical and to
\* plot_categorical iff it is Categorical; one of any other kind gets no
\* plotter call, no plot file and ends the run with no error; no
\* hyperparameter gets more than one plotter call.
C2_Dispatch ==
    /\ ncalls = Len(plotted)
    /\ \A k \in Processed :
          LET name == param_priors[k][1]
              kind == Get(hyperparameters, name).kind
          IN  ~AllIdentical(param_priors[k][2]) =>
                /\ (kind = "Numerical") <=> (PlottedBy(name, "plot_numeric") # {})
                /\ (kind = "Categorical") <=> (PlottedBy(name, "plot_categorical") # {})
                /\ Cardinality(PlotterCalls(name)) <= 1
                /\ kind \notin {"Numerical", "Categorical"} =>
                      /\ PlotterCalls(name) = {}
                      /\ ~Has(fs_files, PlotFile(name))
                      /\ ~EndedAt(k)

C2_Witness ==
    /\ pc = "done"
    /\ plotted = << <<P_n, "plot_numeric">>, <<P_alg, "plot_categorical">> >>
    /\ Get(param_priors, P_c) = <<7, 8>>
    /\ Keys(fs_files) = <<PlotFile(P_n), PlotFile(P_alg)>>

\* C3: a hyperparameter of the prior result whose prior values are all
\* identical gets no plot file and no plotter call and does not end the run
\* with an error, whatever its kind and whatever samples the strategies hold
\* for it.
C3_DegenerateSkipped ==
    \A k \in 1..Len(param_priors) :
        AllIdentical(param_priors[k][2]) =>
            /\ PlotterCalls(param_priors[k][1]) = {}
            /\ ~Has(fs_files, PlotFile(param_priors[k][1]))
            /\ ~EndedAt(k)

C3_Witness ==
    /\ pc = "done"
    /\ Get(param_priors, P_n) = <<3, 3, 3>>
    /\ \E k \in 1..Len(obtained_results) :
          Len(GetList(obtained_results[k][2], P_n)) > 0
    /\ Keys(fs_files) = <<PlotFile(P_alg)>>

\* C5: the number of best configurations obtain_priors is asked for is the
\* --bestN of the command line, the N the output directory suffix encodes.
C5_BestNRequested ==
    priors_request # <<>> =>
        /\ Get(paths.important_parameters, S_bestN) = args.bestN
        /\ priors_request[1].bestN = args.bestN

FailingStrategies ==
    {k \in 1..Len(results_tree.entries) :
        ~AllLoadable(results_tree.entries[k].files)}

\* C8: when a file matched under a strategy directory cannot be loaded, the
\* run ends there with that error: the failing strategy and those listed
\* after it get no mapping, obtain_priors is not called, no plotter is
\* called and no plot file is written.
C8_LoadFailureEndsRun ==
    FailingStrategies # {} =>
        LET first == CHOOSE k \in FailingStrategies :
                        \A j \in FailingStrategies : k <= j
        IN  /\ Len(obtained_results) < first
            /\ priors_request = <<>> /\ param_priors = <<>>
            /\ ncalls = 0 /\ plotted = <<>> /\ fs_files = <<>>
            /\ pc \in {"start", "listdir", "aggregate", "terminated"}
            /\ pc = "terminated" =>
                  /\ raised \in {"BadLayout", "FileNotFoundError"}
                  /\ Len(obtained_results) = first - 1
            /\ (pc = "aggregate" /\ Len(obtained_results) = first - 1) =>
                  ~ENABLED ObtainPriors

C8_Witness ==
    /\ pc = "terminated"
    /\ raised = "BadLayout"
    /\ Len(obtained_results) = 1
    /\ Len(results_tree.entries) = 3
    /\ FailingStrategies = {2}

\* C10: the data handed to plot_numeric holds the prior under 'gaussian_kde'
\* first, then one series per strategy directory in listing order with that
\* strategy's parsed samples of the hyperparameter: 1 + (number of strategy
\* directories) series, whatever the directories are named.
C10_PriorPlusStrategies ==
    last_call.fn = "plot_numeric" =>
        LET data == last_call.data
            name == last_call.parameter_name
            entries == results_tree.entries
        IN  /\ Len(data) = 1 + Len(entries)
            /\ data[1] = <<S_gaussian_kde, Get(param_priors, name)>>
            /\ \A k \in 1..Len(entries) :
                  /\ k + 1 <= Len(data)
                  /\ data[k + 1][1] = entries[k].name
                  /\ data[k + 1][2] = ExpectedValues(entries[k].files, name, LastPiece)
====
